---- MODULE Spec2Model ----
(***************************************************************************)
(* A model of the KNXnet/IP codec library: the buffer-sizing utility, the  *)
(* HostInfo codec, the message codecs and the packet envelope.             *)
(*                                                                         *)
(* A Node.js Buffer is a view (mem, start, len) onto a block of memory;    *)
(* the heap is the sequence of the blocks allocated so far.  An encode     *)
(* writes into the heap in place, and what it has written stays written    *)
(* when it throws afterwards.  A block is held as its length and its       *)
(* non-zero bytes, so that a block of 64 KiB of zeros is small.            *)
(***************************************************************************)
EXTENDS Integers, Sequences, FiniteSets, TLC

VARIABLES
    pc,     \* "idle" before the call, "done" when it has returned or thrown,
            \* "written" once the caller has stored bytes after it
    op,     \* the operation that was called
    args,   \* its arguments
    heap0,  \* the memory when the call was made
    heap,   \* the memory when the call returned or threw
    ret,    \* what the call returned, or the error it threw
    writes  \* the bytes the caller has stored since: how many through the
            \* buffer it passed in and how many through the one it got back

vars == <<pc, op, args, heap0, heap, ret, writes>>

----------------------------------------------------------------------------
(* Bounds of the model *)

\* longest payload / tunnel data drawn from DataVals
MaxData == 2
\* largest output offset tried
MaxOffset == 2
\* largest number of spare bytes behind the encoded structure
MaxSlack == 1
\* longest arbitrary (unstructured) input buffer
MaxRaw == 5
\* most bytes the caller stores after a decode has returned
MaxWrites == 1

----------------------------------------------------------------------------
(* JavaScript values and Buffer primitives *)

\* the value of buffer[i] for an index outside the buffer
Undefined == -1

\* no error was thrown
NoError == "none"

\* a buffer argument that was omitted (undefined or null)
Null == [mem |-> 0, start |-> 0, len |-> 0]

TooSmall == "Given buffer is too small"
\* thrown by the bounds and value checks of read/writeUIntNNBE
RangeError == "RangeError"
\* thrown when a method that the class does not define is called
TypeError == "TypeError: not a function"

\* the value of an arithmetic expression over undefined
NaN == -2

IsNumber(a) == a # Undefined /\ a # NaN

\* a < b and a > b of JavaScript: false when a side is undefined or NaN
JsLt(a, b) == IsNumber(a) /\ IsNumber(b) /\ a < b

JsGt(a, b) == IsNumber(a) /\ IsNumber(b) /\ a > b

\* a + b of JavaScript over numbers and undefined
JsAdd(a, b) == IF IsNumber(a) /\ IsNumber(b) THEN a + b ELSE NaN

Zeros(n) == [i \in 1..n |-> 0]

Fill(n, b) == [i \in 1..n |-> b]

\* the block of memory that holds the bytes q: its length and, by their
\* place, the bytes that are not zero
Mem(q) == [len |-> Len(q), set |-> [i \in {j \in 1..Len(q) : q[j] # 0} |-> q[i]]]

\* a block of n zero bytes
Blank(n) == [len |-> n, set |-> [i \in {} |-> 0]]

\* the byte at the place i (from 1) of a block
At(blk, i) == IF i \in DOMAIN blk.set THEN blk.set[i] ELSE 0

\* the bytes of a block
Contents(blk) == [i \in 1..blk.len |-> At(blk, i)]

\* the block with the byte v at the place k
Write(blk, k, v) ==
    [len |-> blk.len,
     set |-> [i \in (IF v = 0 THEN DOMAIN blk.set \ {k} ELSE DOMAIN blk.set \cup {k})
                |-> IF i = k THEN v ELSE blk.set[i]]]

\* the bytes a buffer shows
Bytes(h, b) == [i \in 1..b.len |-> At(h[b.mem], b.start + i)]

\* buffer[i]
Get(h, b, i) ==
    IF i >= 0 /\ i < b.len THEN At(h[b.mem], b.start + i + 1) ELSE Undefined

\* buffer[i] = v : the value is stored modulo 256, an index outside the
\* buffer stores nothing
Put(h, b, i, v) ==
    IF i >= 0 /\ i < b.len
    THEN [h EXCEPT ![b.mem] = Write(@, b.start + i + 1, v % 256)]
    ELSE h

\* Buffer.alloc(n)
Buffer_alloc(h, n) ==
    [heap |-> Append(h, Blank(n)),
     buf  |-> [mem |-> Len(h) + 1, start |-> 0, len |-> n]]

\* Buffer.allocUnsafe(n): the contents are whatever the memory held
Buffer_allocUnsafe(h, n, junk) ==
    [heap |-> Append(h, [len |-> n,
                         set |-> [i \in (IF junk = 0 THEN {} ELSE 1..n) |-> junk]]),
     buf  |-> [mem |-> Len(h) + 1, start |-> 0, len |-> n]]

Min(a, b) == IF a < b THEN a ELSE b

Max(a, b) == IF a > b THEN a ELSE b

\* buffer.slice(from, to): a view onto the same memory, clamped to the buffer
Buffer_slice(b, from, to) ==
    LET s == Min(Max(from, 0), b.len)
        e == Min(Max(to, 0), b.len)
    IN  [mem |-> b.mem, start |-> b.start + s, len |-> Max(e - s, 0)]

\* source.copy(target, targetStart): as many bytes as fit
Buffer_copy(h, source, target, targetStart) ==
    [h EXCEPT ![target.mem] =
        [len |-> @.len,
         set |-> [i \in {j \in DOMAIN @.set :
                            \/ j <= target.start + targetStart
                            \/ j > target.start + targetStart + source.len
                            \/ j > target.start + target.len}
                       \cup
                       {k + target.start + targetStart - source.start :
                            k \in {j \in DOMAIN h[source.mem].set :
                                     /\ j > source.start
                                     /\ j <= source.start + source.len
                                     /\ j + target.start + targetStart - source.start
                                          <= target.start + target.len}}
                    |-> IF /\ i > target.start + targetStart
                           /\ i <= target.start + targetStart + source.len
                           /\ i <= target.start + target.len
                        THEN At(h[source.mem],
                                source.start + i - target.start - targetStart)
                        ELSE @.set[i]]]]

\* buffer.readUInt16BE(off)
readUInt16BE(h, b, off) ==
    IF off < 0 \/ off + 2 > b.len
    THEN [err |-> RangeError, val |-> 0]
    ELSE [err |-> NoError,
          val |-> Get(h, b, off) * 256 + Get(h, b, off + 1)]

\* A 32-bit unsigned number is held as its two 16-bit halves, the number
\* being hi * 65536 + lo with lo in 0..65535 (the integers of TLC are
\* 32-bit signed and cannot hold 4294967295).
U32(hi, lo) == [hi |-> hi, lo |-> lo]

\* buffer.readUInt32BE(off)
readUInt32BE(h, b, off) ==
    IF off < 0 \/ off + 4 > b.len
    THEN [err |-> RangeError, val |-> U32(0, 0)]
    ELSE [err |-> NoError,
          val |-> U32(Get(h, b, off) * 256 + Get(h, b, off + 1),
                      Get(h, b, off + 2) * 256 + Get(h, b, off + 3))]

\* a call that threw: the memory is left as it was when it threw
Throw(msg, h) == [err |-> msg, heap |-> h, buf |-> Null]

\* a statement that completed, or an encode that returned its buffer
Return(h, b) == [err |-> NoError, heap |-> h, buf |-> b]

\* Statement sequencing: r is the outcome of the statements so far; when they
\* threw, that is the outcome, otherwise the rest runs on what they left.
\* (r is evaluated once and handed on as a value.)
Then(r, Rest(_)) ==
    CHOOSE out \in {IF x.err # NoError THEN x ELSE Rest(x) : x \in {r}} : TRUE

\* buffer[i] = v as a statement
Store(r, i, v) == Return(Put(r.heap, r.buf, i, v), r.buf)

\* buffer.writeUInt16BE(value, off): a value that is not a number passes the
\* range check and is written as 0
writeUInt16BE(h, b, value, off) ==
    IF IsNumber(value) /\ (value < 0 \/ value > 65535)
    THEN Throw(RangeError, h)
    ELSE IF off < 0 \/ off + 2 > b.len
    THEN Throw(RangeError, h)
    ELSE IF IsNumber(value)
    THEN Return(Put(Put(h, b, off, value \div 256), b, off + 1, value), b)
    ELSE Return(Put(Put(h, b, off, 0), b, off + 1, 0), b)

\* buffer.writeUInt32BE(value, off)
writeUInt32BE(h, b, value, off) ==
    IF value.hi < 0 \/ value.hi > 65535 \/ off < 0 \/ off + 4 > b.len
    THEN Throw(RangeError, h)
    ELSE Return(Put(Put(Put(Put(h, b, off, value.hi \div 256),
                            b, off + 1, value.hi),
                        b, off + 2, value.lo \div 256),
                    b, off + 3, value.lo), b)

----------------------------------------------------------------------------
(* lib/utilities.js *)

\* ensureBuffer measuring the buffer from its start instead of the offset
ensureBuffer_IgnoresOffset(h, length, buffer, offset) ==
    IF buffer = Null
    THEN LET a == Buffer_alloc(h, offset + length) IN Return(a.heap, a.buf)
    ELSE IF buffer.len < length
         THEN Throw(TooSmall, h)
         ELSE Return(h, buffer)

\* ensureBuffer accepting a buffer that is one byte short
ensureBuffer_OffByOne(h, length, buffer, offset) ==
    IF buffer = Null
    THEN LET a == Buffer_alloc(h, offset + length) IN Return(a.heap, a.buf)
    ELSE IF (buffer.len - offset) < length - 1
         THEN Throw(TooSmall, h)
         ELSE Return(h, buffer)

ensureBuffer(h, length, buffer, offset) ==
    IF buffer = Null
    THEN LET a == Buffer_alloc(h, offset + length) IN Return(a.heap, a.buf)
    ELSE IF (buffer.len - offset) < length
         THEN Throw(TooSmall, h)
         ELSE Return(h, buffer)

----------------------------------------------------------------------------
(* lib/protocol/auxiliary.js : HostInfo *)

UDP == 1

TCP == 2

\* new HostInfo(protocol, address, port) with a numeric address
HostInfo(protocol, address, port) ==
    [protocol |-> protocol, address |-> address, port |-> port]

\* a decode that threw
Fail(msg, reads) == [err |-> msg, val |-> Null, reads |-> reads]

\* a decode that returned a value; reads are the indices it read as buffer[i]
Ok(v, reads) == [err |-> NoError, val |-> v, reads |-> reads]

\* HostInfo.fromBuffer testing the protocol before the structure length
HostInfo_fromBuffer_ProtocolFirst(h, buffer, offset) ==
    IF (buffer.len - offset) < 8
    THEN Fail(TooSmall, {})
    ELSE LET protocol == Get(h, buffer, offset + 1)
             reads == {offset, offset + 1}
         IN  IF JsLt(protocol, 1) \/ JsGt(protocol, 2)
             THEN Fail("Host info protocol is out of range", reads)
             ELSE IF Get(h, buffer, offset) # 8
             THEN Fail("Host info structure length is invalid", reads)
             ELSE LET address == readUInt32BE(h, buffer, offset + 2)
                      port == readUInt16BE(h, buffer, offset + 6)
                  IN  IF address.err # NoError THEN Fail(address.err, reads)
                      ELSE IF port.err # NoError THEN Fail(port.err, reads)
                      ELSE Ok(HostInfo(protocol, address.val, port.val), reads)

HostInfo_fromBuffer(h, buffer, offset) ==
    IF (buffer.len - offset) < 8
    THEN Fail(TooSmall, {})
    ELSE IF Get(h, buffer, offset) # 8
    THEN Fail("Host info structure length is invalid", {offset})
    ELSE LET protocol == Get(h, buffer, offset + 1)
             reads == {offset, offset + 1}
         IN  IF JsLt(protocol, 1) \/ JsGt(protocol, 2)
             THEN Fail("Host info protocol is out of range", reads)
             ELSE LET address == readUInt32BE(h, buffer, offset + 2)
                      port == readUInt16BE(h, buffer, offset + 6)
                  IN  IF address.err # NoError THEN Fail(address.err, reads)
                      ELSE IF port.err # NoError THEN Fail(port.err, reads)
                      ELSE Ok(HostInfo(protocol, address.val, port.val), reads)

\* HostInfo.toBuffer writing the port in front of the address
HostInfo_toBuffer_PortFirst(h, this, buffer0, offset) ==
    Then(ensureBuffer(h, 8, buffer0, offset), LAMBDA e :
    Then(Store(e, offset, 8), LAMBDA s1 :
    Then(Store(s1, offset + 1, this.protocol), LAMBDA s2 :
    Then(writeUInt16BE(s2.heap, s2.buf, this.port, offset + 2), LAMBDA w :
         writeUInt32BE(w.heap, w.buf, this.address, offset + 4)))))

HostInfo_toBuffer(h, this, buffer0, offset) ==
    Then(ensureBuffer(h, 8, buffer0, offset), LAMBDA e :
    Then(Store(e, offset, 8), LAMBDA s1 :
    Then(Store(s1, offset + 1, this.protocol), LAMBDA s2 :
    Then(writeUInt32BE(s2.heap, s2.buf, this.address, offset + 2), LAMBDA w :
         writeUInt16BE(w.heap, w.buf, this.port, offset + 6)))))

\* this.equals(other), other being a HostInfo
HostInfo_equals(this, other) ==
    /\ other.protocol = this.protocol
    /\ other.address = this.address
    /\ other.port = this.port

----------------------------------------------------------------------------
(* lib/protocol/tunnel.js *)

\* new TunnelRequest(channel, seqNumber, data), data being a Buffer
TunnelRequest(channel, seqNumber, data) ==
    [kind |-> "TunnelRequest", channel |-> channel, seqNumber |-> seqNumber,
     data |-> data]

TunnelRequest_Service == 1056

\* TunnelRequest.fromBuffer taking the data from the reserved octet on
TunnelRequest_fromBuffer_DataAt3(h, buffer, offset) ==
    IF (buffer.len - offset) < 4
    THEN Fail(TooSmall, {})
    ELSE IF Get(h, buffer, offset) # 4
    THEN Fail("Invalid structure length", {offset})
    ELSE LET channel == Get(h, buffer, offset + 1)
             seqNumber == Get(h, buffer, offset + 2)
         IN  Ok(TunnelRequest(channel, seqNumber,
                              Buffer_slice(buffer, offset + 3, buffer.len)),
                {offset, offset + 1, offset + 2})

TunnelRequest_fromBuffer(h, buffer, offset) ==
    IF (buffer.len - offset) < 4
    THEN Fail(TooSmall, {})
    ELSE IF Get(h, buffer, offset) # 4
    THEN Fail("Invalid structure length", {offset})
    ELSE LET channel == Get(h, buffer, offset + 1)
             seqNumber == Get(h, buffer, offset + 2)
         IN  Ok(TunnelRequest(channel, seqNumber,
                              Buffer_slice(buffer, offset + 4, buffer.len)),
                {offset, offset + 1, offset + 2})

\* TunnelRequest.bufferSize counting the four fixed octets only
TunnelRequest_bufferSize_HeaderOnly(this) == 4

TunnelRequest_bufferSize(this) == 4 + this.data.len

TunnelRequest_toBuffer(h, this, buffer0, offset) ==
    Then(ensureBuffer(h, TunnelRequest_bufferSize(this), buffer0, offset), LAMBDA e :
    Then(Store(e, offset, 4), LAMBDA s1 :
    Then(Store(s1, offset + 1, this.channel), LAMBDA s2 :
    Then(Store(s2, offset + 2, this.seqNumber), LAMBDA s3 :
    Then(Store(s3, offset + 3, 0), LAMBDA s4 :
         Return(Buffer_copy(s4.heap, this.data, s4.buf, offset + 4), s4.buf))))))

\* new TunnelResponse(channel, seqNumber, status)
TunnelResponse(channel, seqNumber, status) ==
    [kind |-> "TunnelResponse", channel |-> channel, seqNumber |-> seqNumber,
     status |-> status]

TunnelResponse_Service == 1057

\* TunnelResponse.fromBuffer content with three bytes
TunnelResponse_fromBuffer_ThreeBytes(h, buffer, offset) ==
    IF (buffer.len - offset) < 3
    THEN Fail(TooSmall, {})
    ELSE IF Get(h, buffer, offset) # 4
    THEN Fail("Invalid structure length", {offset})
    ELSE LET channel == Get(h, buffer, offset + 1)
             seqNumber == Get(h, buffer, offset + 2)
             status == Get(h, buffer, offset + 3)
         IN  Ok(TunnelResponse(channel, seqNumber, status),
                {offset, offset + 1, offset + 2, offset + 3})

\* TunnelResponse.fromBuffer refusing only a structure length below 4
TunnelResponse_fromBuffer_AtLeast4(h, buffer, offset) ==
    IF (buffer.len - offset) < 4
    THEN Fail(TooSmall, {})
    ELSE IF Get(h, buffer, offset) < 4
    THEN Fail("Invalid structure length", {offset})
    ELSE LET channel == Get(h, buffer, offset + 1)
             seqNumber == Get(h, buffer, offset + 2)
             status == Get(h, buffer, offset + 3)
         IN  Ok(TunnelResponse(channel, seqNumber, status),
                {offset, offset + 1, offset + 2, offset + 3})

TunnelResponse_fromBuffer(h, buffer, offset) ==
    IF (buffer.len - offset) < 4
    THEN Fail(TooSmall, {})
    ELSE IF Get(h, buffer, offset) # 4
    THEN Fail("Invalid structure length", {offset})
    ELSE LET channel == Get(h, buffer, offset + 1)
             seqNumber == Get(h, buffer, offset + 2)
             status == Get(h, buffer, offset + 3)
         IN  Ok(TunnelResponse(channel, seqNumber, status),
                {offset, offset + 1, offset + 2, offset + 3})

TunnelResponse_bufferSize(this) == 4

TunnelResponse_toBuffer(h, this, buffer0, offset) ==
    Then(ensureBuffer(h, TunnelResponse_bufferSize(this), buffer0, offset), LAMBDA e :
    Then(Store(e, offset, 4), LAMBDA s1 :
    Then(Store(s1, offset + 1, this.channel), LAMBDA s2 :
    Then(Store(s2, offset + 2, this.seqNumber), LAMBDA s3 :
         Store(s3, offset + 3, this.status)))))

----------------------------------------------------------------------------
(* lib/protocol/control.js *)

\* new ConnectionRequest(control, tunnel)
ConnectionRequest(control, tunnel) ==
    [kind |-> "ConnectionRequest", control |-> control, tunnel |-> tunnel]

ConnectionRequest_Service == 517

ConnectionRequest_bufferSize(this) == 20

ConnectionRequest_toBuffer(h, this, buffer0, offset) ==
    Then(ensureBuffer(h, ConnectionRequest_bufferSize(this), buffer0, offset), LAMBDA e :
    Then(HostInfo_toBuffer(e.heap, this.control, e.buf, offset), LAMBDA c :
    Then(HostInfo_toBuffer(c.heap, this.tunnel, c.buf, offset + 8), LAMBDA t :
    Then(Store(t, offset + 16, 4), LAMBDA s1 :
    Then(Store(s1, offset + 17, 4), LAMBDA s2 :
    Then(Store(s2, offset + 18, 2), LAMBDA s3 :
         Store(s3, offset + 19, 0)))))))

\* new ConnectionResponse(channel, status, hostInfo)
ConnectionResponse(channel, status, hostInfo) ==
    [kind |-> "ConnectionResponse", channel |-> channel, status |-> status,
     hostInfo |-> hostInfo]

ConnectionResponse_Service == 518

ConnectionResponse_fromBuffer(h, buffer, offset) ==
    IF (buffer.len - offset) < 14
    THEN Fail(TooSmall, {})
    ELSE LET channel == Get(h, buffer, offset)
             status == Get(h, buffer, offset + 1)
             hostInfo == HostInfo_fromBuffer(h, buffer, offset + 2)
             reads == {offset, offset + 1} \cup hostInfo.reads
         IN  IF hostInfo.err # NoError THEN Fail(hostInfo.err, reads)
             ELSE Ok(ConnectionResponse(channel, status, hostInfo.val), reads)

\* new ConnectionStateRequest(channel, status, hostInfo)
ConnectionStateRequest(channel, status, hostInfo) ==
    [kind |-> "ConnectionStateRequest", channel |-> channel, status |-> status,
     hostInfo |-> hostInfo]

ConnectionStateRequest_Service == 519

ConnectionStateRequest_bufferSize(this) == 10

ConnectionStateRequest_toBuffer(h, this, buffer0, offset) ==
    Then(ensureBuffer(h, ConnectionStateRequest_bufferSize(this), buffer0, offset),
         LAMBDA e :
    Then(Store(e, offset, this.channel), LAMBDA s1 :
    Then(Store(s1, offset + 1, this.status), LAMBDA s2 :
         HostInfo_toBuffer(s2.heap, this.hostInfo, s2.buf, offset + 2))))

\* new ConnectionStateResponse(channel, status)
ConnectionStateResponse(channel, status) ==
    [kind |-> "ConnectionStateResponse", channel |-> channel, status |-> status]

ConnectionStateResponse_Service == 520

ConnectionStateResponse_fromBuffer(h, buffer, offset) ==
    IF (buffer.len - offset) < 2
    THEN Fail(TooSmall, {})
    ELSE LET channel == Get(h, buffer, offset)
             status == Get(h, buffer, offset + 1)
         IN  Ok(ConnectionStateResponse(channel, status), {offset, offset + 1})

\* new DisconnectRequest(channel, status, hostInfo)
DisconnectRequest(channel, status, hostInfo) ==
    [kind |-> "DisconnectRequest", channel |-> channel, status |-> status,
     hostInfo |-> hostInfo]

DisconnectRequest_Service == 521

DisconnectRequest_fromBuffer(h, buffer, offset) ==
    IF (buffer.len - offset) < 10
    THEN Fail(TooSmall, {})
    ELSE LET channel == Get(h, buffer, offset)
             status == Get(h, buffer, offset + 1)
             hostInfo == HostInfo_fromBuffer(h, buffer, offset + 2)
             reads == {offset, offset + 1} \cup hostInfo.reads
         IN  IF hostInfo.err # NoError THEN Fail(hostInfo.err, reads)
             ELSE Ok(DisconnectRequest(channel, status, hostInfo.val), reads)

DisconnectRequest_bufferSize(this) == 10

DisconnectRequest_toBuffer(h, this, buffer0, offset) ==
    Then(ensureBuffer(h, DisconnectRequest_bufferSize(this), buffer0, offset), LAMBDA e :
    Then(Store(e, offset, this.channel), LAMBDA s1 :
    Then(Store(s1, offset + 1, this.status), LAMBDA s2 :
         HostInfo_toBuffer(s2.heap, this.hostInfo, s2.buf, offset + 2))))

----------------------------------------------------------------------------
(* lib/index.js *)

\* the classes ConnectionRequest and ConnectionResponse that index.js defines
\* and exports itself
Index_ConnectionRequest(control, tunnel) ==
    [kind |-> "Index_ConnectionRequest", control |-> control, tunnel |-> tunnel]

Index_ConnectionRequest_toBuffer(h, this, buffer0, offset) ==
    Then(IF buffer0 = Null
         THEN LET a == Buffer_alloc(h, 20 + offset) IN Return(a.heap, a.buf)
         ELSE IF (buffer0.len - offset) < 20
              THEN Throw(TooSmall, h)
              ELSE Return(h, buffer0), LAMBDA e :
    Then(HostInfo_toBuffer(e.heap, this.control, e.buf, offset), LAMBDA c :
    Then(HostInfo_toBuffer(c.heap, this.control, c.buf, offset + 8), LAMBDA t :
    Then(Store(t, offset + 16, 4), LAMBDA s1 :
    Then(Store(s1, offset + 17, 4), LAMBDA s2 :
    Then(Store(s2, offset + 18, 2), LAMBDA s3 :
         Store(s3, offset + 19, 0)))))))

Index_ConnectionResponse(channel, status, hostInfo) ==
    [kind |-> "Index_ConnectionResponse", channel |-> channel,
     status |-> status, hostInfo |-> hostInfo]

Index_ConnectionResponse_fromBuffer(h, buffer, offset) ==
    IF (buffer.len - offset) < 14
    THEN Fail(TooSmall, {})
    ELSE LET channel == Get(h, buffer, offset)
             status == Get(h, buffer, offset + 1)
             hostInfo == HostInfo_fromBuffer(h, buffer, offset + 2)
             reads == {offset, offset + 1} \cup hostInfo.reads
         IN  IF hostInfo.err # NoError THEN Fail(hostInfo.err, reads)
             ELSE Ok(Index_ConnectionResponse(channel, status, hostInfo.val),
                     reads)

\* fromPacket taking a total length of exactly 6 for a payload
fromPacket_EmptySlice(h, buffer) ==
    IF Get(h, buffer, 0) # 6
    THEN Fail("Header length mismatch", {0})
    ELSE IF Get(h, buffer, 1) # 16
    THEN Fail("Header version mismatch", {0, 1})
    ELSE LET service == readUInt16BE(h, buffer, 2)
             length == readUInt16BE(h, buffer, 4)
         IN  IF service.err # NoError THEN Fail(service.err, {0, 1})
             ELSE IF length.err # NoError THEN Fail(length.err, {0, 1})
             ELSE IF length.val < 6
             THEN Ok([service |-> service.val, payload |-> Null], {0, 1})
             ELSE Ok([service |-> service.val,
                      payload |-> Buffer_slice(buffer, 6, length.val)], {0, 1})

fromPacket(h, buffer) ==
    IF Get(h, buffer, 0) # 6
    THEN Fail("Header length mismatch", {0})
    ELSE IF Get(h, buffer, 1) # 16
    THEN Fail("Header version mismatch", {0, 1})
    ELSE LET service == readUInt16BE(h, buffer, 2)
             length == readUInt16BE(h, buffer, 4)
         IN  IF service.err # NoError THEN Fail(service.err, {0, 1})
             ELSE IF length.err # NoError THEN Fail(length.err, {0, 1})
             ELSE IF length.val <= 6
             THEN Ok([service |-> service.val, payload |-> Null], {0, 1})
             ELSE Ok([service |-> service.val,
                      payload |-> Buffer_slice(buffer, 6, length.val)], {0, 1})

\* toPacket announcing the length of the payload instead of the packet's
toPacket_PayloadLength(h, service, payload, junk) ==
    LET length == 6 + payload.len IN
    IF length >= 65535
    THEN Throw("Content length exceeds 65535", h)
    ELSE
    Then(LET a == Buffer_allocUnsafe(h, 6 + payload.len, junk)
         IN  Return(a.heap, a.buf), LAMBDA e :
    Then(Store(e, 0, 6), LAMBDA s1 :
    Then(Store(s1, 1, 16), LAMBDA s2 :
    Then(writeUInt16BE(s2.heap, s2.buf, service, 2), LAMBDA w1 :
    Then(writeUInt16BE(w1.heap, w1.buf, payload.len, 4), LAMBDA w2 :
         Return(Buffer_copy(w2.heap, payload, w2.buf, 6), w2.buf))))))

toPacket(h, service, payload, junk) ==
    LET length == 6 + payload.len IN
    IF length >= 65535
    THEN Throw("Content length exceeds 65535", h)
    ELSE
    Then(LET a == Buffer_allocUnsafe(h, 6 + payload.len, junk)
         IN  Return(a.heap, a.buf), LAMBDA e :
    Then(Store(e, 0, 6), LAMBDA s1 :
    Then(Store(s1, 1, 16), LAMBDA s2 :
    Then(writeUInt16BE(s2.heap, s2.buf, service, 2), LAMBDA w1 :
    Then(writeUInt16BE(w1.heap, w1.buf, length, 4), LAMBDA w2 :
         Return(Buffer_copy(w2.heap, payload, w2.buf, 6), w2.buf))))))

\* new Packet(payload)
Packet(payload) == [kind |-> "Packet", payload |-> payload]

\* what a function returns that ends without a return statement
ReturnsUndefined == [kind |-> "undefined"]

Packet_fromBuffer(h, buffer, offset) ==
    IF (buffer.len - offset) < 6
    THEN Fail(TooSmall, {})
    ELSE IF Get(h, buffer, 0) # 6
    THEN Fail("Header length mismatch", {0})
    ELSE IF Get(h, buffer, 1) # 16
    THEN Fail("Header version mismatch", {0, 1})
    ELSE LET service == readUInt16BE(h, buffer, 2) IN
         IF service.err # NoError THEN Fail(service.err, {0, 1})
         ELSE IF service.val = 518
         THEN LET r == Index_ConnectionResponse_fromBuffer(h, buffer, 6) IN
              IF r.err # NoError THEN Fail(r.err, {0, 1} \cup r.reads)
              ELSE Ok(Packet(r.val), {0, 1} \cup r.reads)
         ELSE Ok(ReturnsUndefined, {0, 1})

\* this.payload.bufferSize: undefined for a class without the getter
bufferSize(m) ==
    CASE m.kind = "ConnectionRequest" -> ConnectionRequest_bufferSize(m)
      [] m.kind = "Index_ConnectionRequest" -> 20
      [] m.kind = "ConnectionStateRequest" -> ConnectionStateRequest_bufferSize(m)
      [] m.kind = "DisconnectRequest" -> DisconnectRequest_bufferSize(m)
      [] m.kind = "TunnelRequest" -> TunnelRequest_bufferSize(m)
      [] m.kind = "TunnelResponse" -> TunnelResponse_bufferSize(m)
      [] OTHER -> Undefined

\* this.payload.service: undefined for a class without the getter
service(m) ==
    CASE m.kind = "ConnectionRequest" -> ConnectionRequest_Service
      [] m.kind = "Index_ConnectionRequest" -> 517
      [] m.kind = "ConnectionResponse" -> ConnectionResponse_Service
      [] m.kind = "ConnectionStateRequest" -> ConnectionStateRequest_Service
      [] m.kind = "ConnectionStateResponse" -> ConnectionStateResponse_Service
      [] m.kind = "DisconnectRequest" -> DisconnectRequest_Service
      [] m.kind = "TunnelRequest" -> TunnelRequest_Service
      [] m.kind = "TunnelResponse" -> TunnelResponse_Service
      [] OTHER -> Undefined

\* this.payload.toBuffer(buffer, offset): a class without the method throws
toBuffer(h, m, buffer, offset) ==
    CASE m.kind = "ConnectionRequest" -> ConnectionRequest_toBuffer(h, m, buffer, offset)
      [] m.kind = "Index_ConnectionRequest" ->
            Index_ConnectionRequest_toBuffer(h, m, buffer, offset)
      [] m.kind = "ConnectionStateRequest" ->
            ConnectionStateRequest_toBuffer(h, m, buffer, offset)
      [] m.kind = "DisconnectRequest" -> DisconnectRequest_toBuffer(h, m, buffer, offset)
      [] m.kind = "TunnelRequest" -> TunnelRequest_toBuffer(h, m, buffer, offset)
      [] m.kind = "TunnelResponse" -> TunnelResponse_toBuffer(h, m, buffer, offset)
      [] OTHER -> Throw(TypeError, h)

Packet_toBuffer(h, this, buffer0, offset) ==
    LET entireLength == JsAdd(6, bufferSize(this.payload)) IN
    IF JsGt(entireLength, 65535)
    THEN Throw("Combined packet length exceeds 16-bit unsigned integer upper bound", h)
    ELSE
    Then(IF buffer0 = Null
         THEN IF IsNumber(entireLength)
              THEN LET a == Buffer_alloc(h, entireLength + offset)
                   IN  Return(a.heap, a.buf)
              ELSE Throw(RangeError, h)
         ELSE IF JsLt(buffer0.len - offset, entireLength)
              THEN Throw(TooSmall, h)
              ELSE Return(h, buffer0), LAMBDA e :
    Then(Store(e, offset, 6), LAMBDA s1 :
    Then(Store(s1, offset + 1, 16), LAMBDA s2 :
    Then(writeUInt16BE(s2.heap, s2.buf, service(this.payload), offset + 2), LAMBDA w1 :
    Then(writeUInt16BE(w1.heap, w1.buf, entireLength, offset + 4), LAMBDA w2 :
    Then(toBuffer(w2.heap, this.payload, w2.buf, offset + 6), LAMBDA p :
         Return(p.heap, w2.buf)))))))

\* Class.fromBuffer(buffer, offset): a class without the static method throws
fromBuffer(h, kind, buffer, offset) ==
    CASE kind = "ConnectionResponse" -> ConnectionResponse_fromBuffer(h, buffer, offset)
      [] kind = "Index_ConnectionResponse" ->
            Index_ConnectionResponse_fromBuffer(h, buffer, offset)
      [] kind = "ConnectionStateResponse" ->
            ConnectionStateResponse_fromBuffer(h, buffer, offset)
      [] kind = "DisconnectRequest" -> DisconnectRequest_fromBuffer(h, buffer, offset)
      [] kind = "TunnelRequest" -> TunnelRequest_fromBuffer(h, buffer, offset)
      [] kind = "TunnelResponse" -> TunnelResponse_fromBuffer(h, buffer, offset)
      [] OTHER -> Fail(TypeError, {})

----------------------------------------------------------------------------
(* The values the calls are made with *)

\* a caller's buffer before an encode: n bytes that no encode writes
Canary(n) == Fill(n, 170)

\* field values: three inside the width of an octet and one beyond it
FieldVals == {0, 9, 255, 256}

\* the octets tunnel data and payloads are made of
DataVals == {2, 4, 255}

RECURSIVE SeqsUpTo(_, _)
\* the sequences over S of length at most n
SeqsUpTo(S, n) ==
    IF n = 0 THEN {<<>>}
    ELSE LET shorter == SeqsUpTo(S, n - 1)
         IN  shorter \cup {Append(q, x) : q \in {r \in shorter : Len(r) = n - 1}, x \in S}

Datas == SeqsUpTo(DataVals, MaxData)

Protocols == {UDP, TCP}

\* addresses from 0.0.0.0 over 1.2.3.4 to 255.255.255.255
Addresses == {U32(hi, lo) : hi \in {0, 258, 65535}, lo \in {0, 772, 65535}}

Ports == {0, 255, 5678, 65535}

\* every HostInfo over the sampled fields, those with a protocol that is
\* neither UDP nor TCP, and those with an address or a port beyond its width
AllHosts ==
    {HostInfo(p, a, q) : p \in Protocols \cup {0, 3}, a \in Addresses, q \in Ports}
    \cup {HostInfo(UDP, U32(65536, 0), 5678), HostInfo(TCP, U32(258, 772), 65536)}

ValidHost(x) ==
    /\ x.protocol \in {UDP, TCP}
    /\ x.address.hi \in 0..65535
    /\ x.address.lo \in 0..65535
    /\ x.port \in 0..65535

\* the HostInfo values the messages embed
Hosts ==
    {HostInfo(UDP, U32(0, 0), 0), HostInfo(UDP, U32(258, 772), 5678),
     HostInfo(TCP, U32(65535, 65535), 65535), HostInfo(3, U32(258, 772), 5678),
     HostInfo(TCP, U32(258, 772), 65536)}

Offsets == 0..MaxOffset

\* the capacities behind the offset tried for a structure of n bytes
Caps(n) == {c \in {0, n - 1} \cup (n..(n + MaxSlack)) : c >= 0}

\* the buffer arguments of an encode of n bytes: none, a whole block, and a
\* view into the middle of a larger block
OutBufs(h0, n) ==
    {[heap |-> h0, buffer |-> Null, offset |-> o] : o \in Offsets}
    \cup
    {[heap |-> Append(h0, Mem(Canary(o + c))),
      buffer |-> [mem |-> Len(h0) + 1, start |-> 0, len |-> o + c],
      offset |-> o] : o \in Offsets, c \in Caps(n)}
    \cup
    {[heap |-> Append(h0, Mem(Canary(o + c + 2))),
      buffer |-> [mem |-> Len(h0) + 1, start |-> 1, len |-> o + c],
      offset |-> o] : o \in Offsets, c \in Caps(n)}

\* a buffer holding the bytes d, as the only block of the memory
DataHeap(d) == <<Mem(d)>>

DataBuf(d) == [mem |-> 1, start |-> 0, len |-> Len(d)]

----------------------------------------------------------------------------
(* The state machine: one call of one operation *)

\* the caller has stored nothing yet
NoWrites == [input |-> 0, result |-> 0]

Init ==
    /\ pc = "idle"
    /\ op = "none"
    /\ args = [this |-> Null]
    /\ heap0 = <<>>
    /\ heap = <<>>
    /\ ret = Throw(NoError, <<>>)
    /\ writes = NoWrites

\* this.toBuffer(buffer, offset) was called and ended as r
Encoded(this, in, outcome) ==
    \E r \in {outcome} :
    /\ pc' = "done"
    /\ op' = "toBuffer"
    /\ args' = [this |-> this, buffer |-> in.buffer, offset |-> in.offset]
    /\ heap0' = in.heap
    /\ heap' = r.heap
    /\ ret' = r
    /\ writes' = NoWrites

\* Class.fromBuffer(buffer, offset) was called and ended as r
Decoded(kind, h, buffer, offset, outcome) ==
    \E r \in {outcome} :
    /\ pc' = "done"
    /\ op' = "fromBuffer"
    /\ args' = [kind |-> kind, buffer |-> buffer, offset |-> offset]
    /\ heap0' = h
    /\ heap' = h
    /\ ret' = r
    /\ writes' = NoWrites

Call_ensureBuffer ==
    /\ pc = "idle"
    /\ \E length \in 0..(MaxData + 1), in \in OutBufs(<<>>, MaxData) :
        \E r \in {ensureBuffer(in.heap, length, in.buffer, in.offset)} :
        /\ pc' = "done"
        /\ op' = "ensureBuffer"
        /\ args' = [length |-> length, buffer |-> in.buffer, offset |-> in.offset]
        /\ heap0' = in.heap
        /\ heap' = r.heap
        /\ ret' = r
        /\ writes' = NoWrites

Call_HostInfo_toBuffer ==
    /\ pc = "idle"
    /\ \E this \in AllHosts, in \in OutBufs(<<>>, 8) :
        Encoded([kind |-> "HostInfo"] @@ this, in,
                HostInfo_toBuffer(in.heap, this, in.buffer, in.offset))

Call_ConnectionRequest_toBuffer ==
    /\ pc = "idle"
    /\ \E control \in Hosts, tunnel \in Hosts, in \in OutBufs(<<>>, 20) :
        LET this == ConnectionRequest(control, tunnel) IN
        Encoded(this, in, ConnectionRequest_toBuffer(in.heap, this, in.buffer, in.offset))

Call_Index_ConnectionRequest_toBuffer ==
    /\ pc = "idle"
    /\ \E control \in Hosts, tunnel \in Hosts, in \in OutBufs(<<>>, 20) :
        LET this == Index_ConnectionRequest(control, tunnel) IN
        Encoded(this, in,
                Index_ConnectionRequest_toBuffer(in.heap, this, in.buffer, in.offset))

Call_ConnectionStateRequest_toBuffer ==
    /\ pc = "idle"
    /\ \E channel \in FieldVals, status \in FieldVals, hostInfo \in Hosts,
       in \in OutBufs(<<>>, 10) :
        LET this == ConnectionStateRequest(channel, status, hostInfo) IN
        Encoded(this, in,
                ConnectionStateRequest_toBuffer(in.heap, this, in.buffer, in.offset))

Call_DisconnectRequest_toBuffer ==
    /\ pc = "idle"
    /\ \E channel \in FieldVals, status \in FieldVals, hostInfo \in Hosts,
       in \in OutBufs(<<>>, 10) :
        LET this == DisconnectRequest(channel, status, hostInfo) IN
        Encoded(this, in, DisconnectRequest_toBuffer(in.heap, this, in.buffer, in.offset))

Call_TunnelRequest_toBuffer ==
    /\ pc = "idle"
    /\ \E channel \in FieldVals, seqNumber \in FieldVals, d \in Datas :
        \E in \in OutBufs(DataHeap(d), 4 + Len(d)) :
            LET this == TunnelRequest(channel, seqNumber, DataBuf(d)) IN
            Encoded(this, in, TunnelRequest_toBuffer(in.heap, this, in.buffer, in.offset))

Call_TunnelResponse_toBuffer ==
    /\ pc = "idle"
    /\ \E channel \in FieldVals, seqNumber \in FieldVals, status \in FieldVals,
       in \in OutBufs(<<>>, 4) :
        LET this == TunnelResponse(channel, seqNumber, status) IN
        Encoded(this, in, TunnelResponse_toBuffer(in.heap, this, in.buffer, in.offset))

\* ConnectionResponse and ConnectionStateResponse define no toBuffer
Call_ConnectionResponse_toBuffer ==
    /\ pc = "idle"
    /\ \E channel \in FieldVals, status \in FieldVals, hostInfo \in Hosts,
       in \in OutBufs(<<>>, 14) :
        LET this == ConnectionResponse(channel, status, hostInfo) IN
        Encoded(this, in, toBuffer(in.heap, this, in.buffer, in.offset))

Call_ConnectionStateResponse_toBuffer ==
    /\ pc = "idle"
    /\ \E channel \in FieldVals, status \in FieldVals, in \in OutBufs(<<>>, 2) :
        LET this == ConnectionStateResponse(channel, status) IN
        Encoded(this, in, toBuffer(in.heap, this, in.buffer, in.offset))

----------------------------------------------------------------------------
(* The bytes the decodes are called with *)

\* HostInfo structures on the wire: right and wrong structure lengths and
\* protocols, three addresses and ports
HostWires ==
    {<<l, p>> \o rest : l \in {8, 7}, p \in {0, 1, 2, 3},
                        rest \in {<<0, 0, 0, 0, 0, 0>>, <<1, 2, 3, 4, 22, 46>>,
                                  <<255, 255, 255, 255, 255, 255>>}}

\* channel and status (or sequence number) octets
OctetPairs == {<<0, 0>>, <<9, 255>>}

\* the trailing four octets of a connection response
ResponseTail == <<4, 4, 2, 0>>

ConnectionResponseWires ==
    {cs \o hw \o ResponseTail : cs \in OctetPairs, hw \in HostWires}

ConnectionStateResponseWires == {<<0, 0>>, <<9, 255>>, <<255, 9>>}

DisconnectRequestWires == {cs \o hw : cs \in OctetPairs, hw \in HostWires}

TunnelRequestWires ==
    {<<l>> \o cs \o <<r>> \o d : l \in {4, 3, 5}, cs \in OctetPairs,
                                r \in {0, 7}, d \in Datas}

TunnelResponseWires ==
    {<<l>> \o cs \o <<st>> : l \in {4, 3, 5}, cs \in OctetPairs, st \in {0, 9, 255}}

ConnectionRequestWires ==
    {c \o t \o ResponseTail :
        c \in {<<8, 1, 1, 2, 3, 4, 22, 46>>}, t \in {<<8, 1, 1, 2, 3, 4, 22, 46>>,
                                                    <<8, 2, 0, 0, 0, 0, 0, 0>>}}

\* what precedes the structure in a buffer that is read from offset o
Prefix(o) == [i \in 1..o |-> IF i = 1 THEN 6 ELSE IF i = 2 THEN 16 ELSE 0]

\* the buffers a decode of the structure w is called with: at every offset,
\* cut short to every length, followed by spare bytes, and ending before
\* the offset
InBufs(w) ==
    {[bytes |-> Prefix(o) \o SubSeq(w, 1, k), offset |-> o] :
        o \in Offsets, k \in 0..Len(w)}
    \cup
    {[bytes |-> Prefix(o) \o w \o Zeros(z), offset |-> o] :
        o \in Offsets, z \in 1..MaxSlack}
    \cup
    {[bytes |-> SubSeq(Prefix(o), 1, o - 1), offset |-> o] : o \in Offsets \ {0}}

\* the buffer that shows all of the only block of memory
Whole(bytes) == [mem |-> 1, start |-> 0, len |-> Len(bytes)]

Call_HostInfo_fromBuffer ==
    /\ pc = "idle"
    /\ \E w \in HostWires : \E in \in InBufs(w) :
        Decoded("HostInfo", DataHeap(in.bytes), Whole(in.bytes), in.offset,
                HostInfo_fromBuffer(DataHeap(in.bytes), Whole(in.bytes), in.offset))

Call_ConnectionResponse_fromBuffer ==
    /\ pc = "idle"
    /\ \E w \in ConnectionResponseWires : \E in \in InBufs(w) :
        Decoded("ConnectionResponse", DataHeap(in.bytes), Whole(in.bytes), in.offset,
                ConnectionResponse_fromBuffer(DataHeap(in.bytes), Whole(in.bytes), in.offset))

Call_Index_ConnectionResponse_fromBuffer ==
    /\ pc = "idle"
    /\ \E w \in ConnectionResponseWires : \E in \in InBufs(w) :
        Decoded("Index_ConnectionResponse", DataHeap(in.bytes), Whole(in.bytes), in.offset,
                Index_ConnectionResponse_fromBuffer(DataHeap(in.bytes), Whole(in.bytes),
                                                    in.offset))

Call_ConnectionStateResponse_fromBuffer ==
    /\ pc = "idle"
    /\ \E w \in ConnectionStateResponseWires : \E in \in InBufs(w) :
        Decoded("ConnectionStateResponse", DataHeap(in.bytes), Whole(in.bytes), in.offset,
                ConnectionStateResponse_fromBuffer(DataHeap(in.bytes), Whole(in.bytes),
                                                   in.offset))

Call_DisconnectRequest_fromBuffer ==
    /\ pc = "idle"
    /\ \E w \in DisconnectRequestWires : \E in \in InBufs(w) :
        Decoded("DisconnectRequest", DataHeap(in.bytes), Whole(in.bytes), in.offset,
                DisconnectRequest_fromBuffer(DataHeap(in.bytes), Whole(in.bytes), in.offset))

Call_TunnelRequest_fromBuffer ==
    /\ pc = "idle"
    /\ \E w \in TunnelRequestWires : \E in \in InBufs(w) :
        Decoded("TunnelRequest", DataHeap(in.bytes), Whole(in.bytes), in.offset,
                TunnelRequest_fromBuffer(DataHeap(in.bytes), Whole(in.bytes), in.offset))

Call_TunnelResponse_fromBuffer ==
    /\ pc = "idle"
    /\ \E w \in TunnelResponseWires : \E in \in InBufs(w) :
        Decoded("TunnelResponse", DataHeap(in.bytes), Whole(in.bytes), in.offset,
                TunnelResponse_fromBuffer(DataHeap(in.bytes), Whole(in.bytes), in.offset))

\* ConnectionRequest and ConnectionStateRequest define no fromBuffer
Call_ConnectionRequest_fromBuffer ==
    /\ pc = "idle"
    /\ \E w \in ConnectionRequestWires : \E in \in InBufs(w) :
        Decoded("ConnectionRequest", DataHeap(in.bytes), Whole(in.bytes), in.offset,
                fromBuffer(DataHeap(in.bytes), "ConnectionRequest", Whole(in.bytes),
                           in.offset))

Call_ConnectionStateRequest_fromBuffer ==
    /\ pc = "idle"
    /\ \E w \in DisconnectRequestWires : \E in \in InBufs(w) :
        Decoded("ConnectionStateRequest", DataHeap(in.bytes), Whole(in.bytes), in.offset,
                fromBuffer(DataHeap(in.bytes), "ConnectionStateRequest", Whole(in.bytes),
                           in.offset))

----------------------------------------------------------------------------
(* The envelope *)

\* the six octets of an envelope header
Header(b0, b1, svc, total) ==
    <<b0, b1, svc \div 256, svc % 256, total \div 256, total % 256>>

\* the service identifiers of the seven message classes
Registered ==
    {ConnectionRequest_Service, ConnectionResponse_Service,
     ConnectionStateRequest_Service, ConnectionStateResponse_Service,
     DisconnectRequest_Service, TunnelRequest_Service, TunnelResponse_Service}

\* service identifiers no class has
Unregistered == {0, 4919, 65535}

\* payloads as they arrive for a service identifier
PayloadWires(svc) ==
    CASE svc = ConnectionRequest_Service -> ConnectionRequestWires
      [] svc = ConnectionResponse_Service ->
            {cs \o hw \o ResponseTail :
                cs \in {<<9, 255>>},
                hw \in {<<8, 1, 1, 2, 3, 4, 22, 46>>, <<8, 2, 0, 0, 0, 0, 0, 0>>,
                        <<7, 1, 1, 2, 3, 4, 22, 46>>, <<8, 3, 1, 2, 3, 4, 22, 46>>}}
      [] svc = ConnectionStateRequest_Service ->
            {<<9, 0, 8, 1, 1, 2, 3, 4, 22, 46>>}
      [] svc = ConnectionStateResponse_Service -> {<<9, 0>>, <<255, 9>>}
      [] svc = DisconnectRequest_Service ->
            {<<9, 0, 8, 1, 1, 2, 3, 4, 22, 46>>, <<9, 0, 8, 3, 1, 2, 3, 4, 22, 46>>}
      [] svc = TunnelRequest_Service ->
            {<<4, 1, 9, 0>> \o d : d \in Datas} \cup {<<5, 1, 9, 0>>}
      [] svc = TunnelResponse_Service -> {<<4, 1, 9, 0>>, <<4, 1, 9, 255>>, <<3, 1, 9, 0>>}
      [] OTHER -> {<<>>, <<2, 4>>}

\* the total lengths a header announces in front of a payload of n bytes
Totals(n) == {t \in {0, 6, 7, 6 + n - 1, 6 + n, 6 + n + 1} : t >= 0}

\* a service identifier, a payload for it and an announced total length
Frames ==
    UNION {UNION {{[svc |-> svc, w |-> w, total |-> t] : t \in Totals(Len(w))} :
                     w \in PayloadWires(svc)} :
              svc \in Registered \cup Unregistered}

\* envelopes with right and wrong header octets and total lengths
Envelopes ==
    {Header(b0, b1, fr.svc, fr.total) \o fr.w :
        b0 \in {6, 5}, b1 \in {16, 17}, fr \in Frames}

\* arbitrary short inputs
RawInputs == SeqsUpTo({0, 6, 16}, MaxRaw)

Call_fromPacket ==
    /\ pc = "idle"
    /\ \E bytes \in Envelopes \cup RawInputs :
        /\ pc' = "done"
        /\ op' = "fromPacket"
        /\ args' = [buffer |-> Whole(bytes)]
        /\ heap0' = DataHeap(bytes)
        /\ heap' = DataHeap(bytes)
        /\ ret' = fromPacket(DataHeap(bytes), Whole(bytes))
        /\ writes' = NoWrites

Call_Packet_fromBuffer ==
    /\ pc = "idle"
    /\ \E env \in Envelopes \cup RawInputs, offset \in Offsets :
        LET bytes == Prefix(offset) \o env IN
        /\ pc' = "done"
        /\ op' = "Packet.fromBuffer"
        /\ args' = [buffer |-> Whole(bytes), offset |-> offset]
        /\ heap0' = DataHeap(bytes)
        /\ heap' = DataHeap(bytes)
        /\ ret' = Packet_fromBuffer(DataHeap(bytes), Whole(bytes), offset)
        /\ writes' = NoWrites

\* total lengths at and next to the limit of the length field
LargeTotals == {65534, 65535, 65536}

Call_toPacket ==
    /\ pc = "idle"
    /\ \E in \in {[svc |-> svc, heap |-> DataHeap(d), payload |-> DataBuf(d),
                     junk |-> junk] :
                    svc \in Registered \cup Unregistered \cup {65536},
                    d \in Datas, junk \in {0, 170}}
                \cup {[svc |-> 4919, heap |-> <<Blank(t - 6)>>,
                       payload |-> [mem |-> 1, start |-> 0, len |-> t - 6],
                       junk |-> 0] : t \in LargeTotals} :
        \E r \in {toPacket(in.heap, in.svc, in.payload, in.junk)} :
        /\ pc' = "done"
        /\ op' = "toPacket"
        /\ args' = [service |-> in.svc, payload |-> in.payload]
        /\ heap0' = in.heap
        /\ heap' = r.heap
        /\ ret' = r
        /\ writes' = NoWrites

\* the messages a Packet is made of, each with the memory its data lies in
PacketPayloads ==
    {[heap |-> <<>>, msg |-> ConnectionRequest(c, t)] : c \in Hosts, t \in Hosts}
    \cup {[heap |-> <<>>, msg |-> Index_ConnectionRequest(c, t)] :
            c \in Hosts, t \in Hosts}
    \cup {[heap |-> <<>>, msg |-> ConnectionResponse(9, 0, x)] : x \in Hosts}
    \cup {[heap |-> <<>>, msg |-> Index_ConnectionResponse(9, 0, x)] : x \in Hosts}
    \cup {[heap |-> <<>>, msg |-> ConnectionStateRequest(9, 0, x)] : x \in Hosts}
    \cup {[heap |-> <<>>, msg |-> ConnectionStateResponse(9, st)] : st \in FieldVals}
    \cup {[heap |-> <<>>, msg |-> DisconnectRequest(ch, 0, x)] :
            ch \in FieldVals, x \in Hosts}
    \cup {[heap |-> DataHeap(d), msg |-> TunnelRequest(1, sq, DataBuf(d))] :
            sq \in {9, 256}, d \in Datas}
    \cup {[heap |-> <<>>, msg |-> TunnelResponse(1, sq, st)] :
            sq \in {9, 256}, st \in {0, 255}}

\* tunnel requests whose packets are at and next to the limit
LargePayloads ==
    {[heap |-> <<Blank(t - 10)>>,
      msg |-> TunnelRequest(1, 9, [mem |-> 1, start |-> 0, len |-> t - 10])] :
        t \in LargeTotals}

\* the size the caller expects the packet of a message to have
ExpectedSize(m) == IF IsNumber(bufferSize(m)) THEN 6 + bufferSize(m) ELSE 6

Call_Packet_toBuffer ==
    /\ pc = "idle"
    /\ \/ \E pl \in PacketPayloads :
            \E in \in OutBufs(pl.heap, ExpectedSize(pl.msg)) :
                Encoded(Packet(pl.msg), in,
                        Packet_toBuffer(in.heap, Packet(pl.msg), in.buffer, in.offset))
       \/ \E pl \in LargePayloads :
            LET in == [heap |-> pl.heap, buffer |-> Null, offset |-> 0] IN
            Encoded(Packet(pl.msg), in,
                    Packet_toBuffer(in.heap, Packet(pl.msg), in.buffer, in.offset))

\* the buffer a decode returned: the data of a tunnel request, the payload
\* of an envelope
Result == IF op = "fromPacket" THEN ret.val.payload ELSE ret.val.data

\* TunnelRequest.fromBuffer or fromPacket has returned to the caller
Returned ==
    /\ pc \in {"done", "written"}
    /\ \/ op = "fromBuffer" /\ args.kind = "TunnelRequest"
       \/ op = "fromPacket"
    /\ ret.err = NoError
    /\ writes.input + writes.result < MaxWrites

\* the byte the caller stores: one that no input holds
Scribble == 170

\* the caller stores a byte into the buffer it passed in: buffer[i] = v
Write_input ==
    /\ Returned
    /\ \E i \in 0..(args.buffer.len - 1) :
          /\ heap' = Put(heap, args.buffer, i, Scribble)
          /\ writes' = [writes EXCEPT !.input = @ + 1]
    /\ pc' = "written"
    /\ UNCHANGED <<op, args, heap0, ret>>

\* the caller stores a byte into the buffer it got back: data[i] = v
Write_result ==
    /\ Returned
    /\ Result # Null
    /\ \E i \in 0..(Result.len - 1) :
          /\ heap' = Put(heap, Result, i, Scribble)
          /\ writes' = [writes EXCEPT !.result = @ + 1]
    /\ pc' = "written"
    /\ UNCHANGED <<op, args, heap0, ret>>

Next ==
    \/ Call_ensureBuffer
    \/ Call_HostInfo_toBuffer
    \/ Call_ConnectionRequest_toBuffer
    \/ Call_Index_ConnectionRequest_toBuffer
    \/ Call_ConnectionStateRequest_toBuffer
    \/ Call_DisconnectRequest_toBuffer
    \/ Call_TunnelRequest_toBuffer
    \/ Call_TunnelResponse_toBuffer
    \/ Call_ConnectionResponse_toBuffer
    \/ Call_ConnectionStateResponse_toBuffer
    \/ Call_HostInfo_fromBuffer
    \/ Call_ConnectionResponse_fromBuffer
    \/ Call_Index_ConnectionResponse_fromBuffer
    \/ Call_ConnectionStateResponse_fromBuffer
    \/ Call_DisconnectRequest_fromBuffer
    \/ Call_TunnelRequest_fromBuffer
    \/ Call_TunnelResponse_fromBuffer
    \/ Call_ConnectionRequest_fromBuffer
    \/ Call_ConnectionStateRequest_fromBuffer
    \/ Call_fromPacket
    \/ Call_Packet_fromBuffer
    \/ Call_toPacket
    \/ Call_Packet_toBuffer
    \/ Write_input
    \/ Write_result

Spec == Init /\ [][Next]_vars

----------------------------------------------------------------------------
(* Properties *)

\* the memory that existed when the call was made is as it was
Untouched == SubSeq(heap, 1, Len(heap0)) = heap0

\* C2: for every HostInfo h with protocol 1 or 2, a 32-bit address and a
\* 16-bit port, HostInfo.fromBuffer(h.toBuffer()) succeeds and returns a g
\* with h.equals(g) and g.equals(h); the same holds for the bytes an encode
\* into a caller's buffer wrote at its offset.
C2_HostInfoRoundTrip ==
    (/\ pc = "done"
     /\ op = "toBuffer"
     /\ args.this.kind = "HostInfo"
     /\ ValidHost(args.this))
    => /\ args.buffer = Null => ret.err = NoError
       /\ ret.err = NoError =>
            \E g \in {HostInfo_fromBuffer(heap, ret.buf, args.offset)} :
                /\ g.err = NoError
                /\ HostInfo_equals(args.this, g.val)
                /\ HostInfo_equals(g.val, args.this)

\* HostInfo(TCP, 1.2.3.4, 5678).toBuffer() returned 08 02 01 02 03 04 16 2E
C2_Witness ==
    /\ pc = "done"
    /\ op = "toBuffer"
    /\ args.this = [kind |-> "HostInfo", protocol |-> TCP,
                    address |-> U32(258, 772), port |-> 5678]
    /\ args.buffer = Null
    /\ args.offset = 0
    /\ ret.err = NoError
    /\ Bytes(heap, ret.buf) = <<8, 2, 1, 2, 3, 4, 22, 46>>

\* C3: for every service identifier in 0..65535 and every payload p that is
\* accepted, toPacket returns a buffer of exactly 6 + len(p) bytes: 6, 16,
\* the identifier big-endian, 6 + len(p) big-endian, then p.
C3_ToPacketLayout ==
    (/\ pc = "done"
     /\ op = "toPacket"
     /\ args.service \in 0..65535
     /\ ret.err = NoError)
    => /\ ret.buf.len = 6 + args.payload.len
       /\ Bytes(heap, ret.buf)
            = <<6, 16, args.service \div 256, args.service % 256,
                (6 + args.payload.len) \div 256, (6 + args.payload.len) % 256>>
              \o Bytes(heap0, args.payload)
       /\ Untouched

\* toPacket(0x1337, [02 04]) returned 06 10 13 37 00 08 02 04
C3_Witness ==
    /\ pc = "done"
    /\ op = "toPacket"
    /\ args.service = 4919
    /\ ret.err = NoError
    /\ Bytes(heap, ret.buf) = <<6, 16, 19, 55, 0, 8, 2, 4>>

\* C10: ensureBuffer(n, buffer, offset) returns a new all-zero buffer of
\* exactly offset + n bytes when no buffer is supplied, fails with the
\* buffer-too-small error when buffer.length - offset < n, and otherwise
\* returns the very same buffer; no existing memory changes in any case.
C10_EnsureBuffer ==
    (pc = "done" /\ op = "ensureBuffer")
    => /\ Untouched
       /\ IF args.buffer = Null
          THEN /\ ret.err = NoError
               /\ ret.buf.mem = Len(heap0) + 1
               /\ Len(heap) = Len(heap0) + 1
               /\ ret.buf.start = 0
               /\ heap[ret.buf.mem].len = args.offset + args.length
               /\ Bytes(heap, ret.buf) = Zeros(args.offset + args.length)
          ELSE IF args.buffer.len - args.offset < args.length
          THEN ret.err = TooSmall /\ heap = heap0
          ELSE ret.err = NoError /\ ret.buf = args.buffer /\ heap = heap0

\* a supplied buffer with exactly n bytes behind the offset was returned
C10_Witness ==
    /\ pc = "done"
    /\ op = "ensureBuffer"
    /\ args.buffer # Null
    /\ args.offset > 0
    /\ args.length > 0
    /\ args.buffer.len - args.offset = args.length
    /\ ret.err = NoError
    /\ ret.buf = args.buffer

\* the fields of a message lie within their declared widths
ValidMessage(m) ==
    /\ "channel" \in DOMAIN m => m.channel \in 0..255
    /\ "status" \in DOMAIN m => m.status \in 0..255
    /\ "seqNumber" \in DOMAIN m => m.seqNumber \in 0..255
    /\ "hostInfo" \in DOMAIN m => ValidHost(m.hostInfo)
    /\ "control" \in DOMAIN m => ValidHost(m.control)
    /\ "tunnel" \in DOMAIN m => ValidHost(m.tunnel)

\* a message without its data
Scalars(m) == [f \in DOMAIN m \ {"data"} |-> m[f]]

\* the decoded message d, lying in memory h, has the fields of the message m
\* that was encoded from the memory heap0
SameMessage(h, d, m) ==
    /\ Scalars(d) = Scalars(m)
    /\ "data" \in DOMAIN m =>
          "data" \in DOMAIN d /\ Bytes(h, d.data) = Bytes(heap0, m.data)

\* fromBuffer(m.toBuffer()) succeeded and returned the fields of m
RoundTrips ==
    /\ ret.err = NoError
    /\ \E d \in {fromBuffer(heap, args.this.kind, ret.buf, 0)} :
          d.err = NoError /\ SameMessage(heap, d.val, args.this)

\* m.toBuffer() was called for a message with fields within their widths
EncodedAlone(kinds) ==
    /\ pc = "done"
    /\ op = "toBuffer"
    /\ args.this.kind \in kinds
    /\ ValidMessage(args.this)
    /\ args.buffer = Null
    /\ args.offset = 0

\* the seven message kinds
SevenKinds ==
    {"ConnectionRequest", "ConnectionResponse", "ConnectionStateRequest",
     "ConnectionStateResponse", "DisconnectRequest", "TunnelRequest",
     "TunnelResponse"}

\* the kinds whose class defines both toBuffer and fromBuffer
TwoWayKinds == {"DisconnectRequest", "TunnelRequest", "TunnelResponse"}

\* C1 as stated: for each of the seven message kinds and every message m with
\* fields within their widths, fromBuffer(m.toBuffer()) succeeds and returns
\* a message with the fields of m.
C1_AllKindsRoundTrip == EncodedAlone(SevenKinds) => RoundTrips

\* C1 as amended: the same for DisconnectRequest, TunnelRequest and
\* TunnelResponse, the kinds that have both an encode and a decode.
C1_TwoWayRoundTrip == EncodedAlone(TwoWayKinds) => RoundTrips

\* a tunnel request with two bytes of data was encoded alone
C1_Witness ==
    /\ EncodedAlone({"TunnelRequest"})
    /\ args.this.channel = 9
    /\ args.this.seqNumber = 255
    /\ Bytes(heap0, args.this.data) = <<2, 255>>
    /\ Bytes(heap, ret.buf) = <<4, 9, 255, 0, 2, 255>>

\* the header octets and total length of the envelope at the start of the
\* buffer that fromPacket was called with
InputBytes == Bytes(heap0, args.buffer)

TotalLength == InputBytes[5] * 256 + InputBytes[6]

\* fromPacket was called with a buffer that starts with a valid header
ValidHeaderGiven ==
    /\ pc = "done"
    /\ op = "fromPacket"
    /\ args.buffer.len >= 6
    /\ InputBytes[1] = 6
    /\ InputBytes[2] = 16

\* C4 as stated: for every buffer with a valid header fromPacket returns the
\* service identifier of octets 2..3 and, for the total length of octets
\* 4..5, no payload when it is <= 6 and otherwise exactly the bytes
\* [6, totalLength) of the input.
C4_PayloadIsAnnouncedRange ==
    ValidHeaderGiven
    => /\ ret.err = NoError
       /\ ret.val.service = InputBytes[3] * 256 + InputBytes[4]
       /\ IF TotalLength <= 6
          THEN ret.val.payload = Null
          ELSE /\ ret.val.payload # Null
               /\ ret.val.payload.len = TotalLength - 6
               /\ \A i \in 1..(TotalLength - 6) :
                     /\ 6 + i <= Len(InputBytes)
                     /\ Bytes(heap, ret.val.payload)[i] = InputBytes[6 + i]

\* C4 as amended: ... and otherwise exactly the bytes of the input at the
\* indices from 6 up to the smaller of totalLength and the input's length.
C4_PayloadIsClampedRange ==
    ValidHeaderGiven
    => /\ ret.err = NoError
       /\ ret.val.service = InputBytes[3] * 256 + InputBytes[4]
       /\ IF TotalLength <= 6
          THEN ret.val.payload = Null
          ELSE /\ ret.val.payload # Null
               /\ Bytes(heap, ret.val.payload)
                    = SubSeq(InputBytes, 7, Min(TotalLength, Len(InputBytes)))

\* a total length of 7 in front of a payload of two bytes gave one byte
C4_Witness ==
    /\ ValidHeaderGiven
    /\ TotalLength = 7
    /\ args.buffer.len = 8
    /\ ret.err = NoError
    /\ ret.val.payload.len = 1
    /\ Bytes(heap, ret.val.payload) = <<InputBytes[7]>>

\* the errors that report a total length beyond the length field
LengthOverflow ==
    {"Content length exceeds 65535",
     "Combined packet length exceeds 16-bit unsigned integer upper bound"}

\* the kinds whose class defines toBuffer and bufferSize
EncodableKinds ==
    {"ConnectionRequest", "Index_ConnectionRequest", "ConnectionStateRequest",
     "DisconnectRequest", "TunnelRequest", "TunnelResponse"}

\* the number of bytes the encoding of m occupies
EncodedSize(m) ==
    CASE m.kind = "HostInfo" -> 8
      [] m.kind \in {"ConnectionRequest", "Index_ConnectionRequest"} -> 20
      [] m.kind \in {"ConnectionStateRequest", "DisconnectRequest"} -> 10
      [] m.kind = "TunnelRequest" -> 4 + m.data.len
      [] m.kind = "TunnelResponse" -> 4
      [] m.kind = "Packet" ->
            6 + (CASE m.payload.kind \in {"ConnectionRequest", "Index_ConnectionRequest"} -> 20
                   [] m.payload.kind \in {"ConnectionStateRequest", "DisconnectRequest"} -> 10
                   [] m.payload.kind = "TunnelRequest" -> 4 + m.payload.data.len
                   [] m.payload.kind = "TunnelResponse" -> 4)

\* toPacket was called with a service identifier of 16 bits
ToPacketCalled ==
    /\ pc = "done"
    /\ op = "toPacket"
    /\ args.service \in 0..65535

\* new Packet(m).toBuffer() was called for an encodable message m with fields
\* within their widths
PacketEncodedAlone ==
    /\ pc = "done"
    /\ op = "toBuffer"
    /\ args.this.kind = "Packet"
    /\ args.this.payload.kind \in EncodableKinds
    /\ ValidMessage(args.this.payload)
    /\ args.buffer = Null

\* C5 as stated: toPacket(service, payload) and Packet.toBuffer() fail with
\* a length-overflow error exactly when totalLength = 6 + payload length is
\* >= 65535 and succeed for every smaller totalLength; a totalLength of
\* exactly 65535 is rejected by both.
C5_OverflowAt65535 ==
    /\ ToPacketCalled =>
          IF 6 + args.payload.len >= 65535
          THEN ret.err \in LengthOverflow
          ELSE ret.err = NoError
    /\ PacketEncodedAlone =>
          IF EncodedSize(args.this) >= 65535
          THEN ret.err \in LengthOverflow
          ELSE ret.err = NoError

\* the number of bytes of the input from the offset on
Available ==
    IF op = "fromPacket" THEN args.buffer.len ELSE args.buffer.len - args.offset

\* the envelope decode was called with fewer than 6 bytes available
ShortEnvelopeGiven ==
    /\ pc = "done"
    /\ op \in {"fromPacket", "Packet.fromBuffer"}
    /\ Available < 6

\* C6 as stated: envelope decode (fromPacket and Packet.fromBuffer) of an
\* input with fewer than 6 bytes available always fails with the
\* buffer-too-small error and never reads outside the input.
C6_ShortInputTooSmall ==
    ShortEnvelopeGiven
    => /\ ret.err = TooSmall
       /\ ret.reads \subseteq 0..(args.buffer.len - 1)

\* Packet.fromBuffer was called at offset 0 with one whole envelope: the
\* header octets 6 and 16 and a total length that is the input's length
WholeEnvelopeGiven ==
    /\ pc = "done"
    /\ op = "Packet.fromBuffer"
    /\ args.offset = 0
    /\ args.buffer.len >= 6
    /\ InputBytes[1] = 6
    /\ InputBytes[2] = 16
    /\ TotalLength = args.buffer.len

\* the service identifier of the envelope
ServiceGiven == InputBytes[3] * 256 + InputBytes[4]

UnknownService == "Unknown service"

\* C7 as stated: Packet.fromBuffer of a well-formed envelope whose service
\* identifier is not one of the seven registered values fails with an
\* UnknownService error and never returns a value.
C7_UnknownServiceFails ==
    (WholeEnvelopeGiven /\ ServiceGiven \notin Registered)
    => ret.err = UnknownService

\* the message class registered for a service identifier
KindOf(svc) ==
    CASE svc = ConnectionRequest_Service -> "ConnectionRequest"
      [] svc = ConnectionResponse_Service -> "ConnectionResponse"
      [] svc = ConnectionStateRequest_Service -> "ConnectionStateRequest"
      [] svc = ConnectionStateResponse_Service -> "ConnectionStateResponse"
      [] svc = DisconnectRequest_Service -> "DisconnectRequest"
      [] svc = TunnelRequest_Service -> "TunnelRequest"
      [] svc = TunnelResponse_Service -> "TunnelResponse"

\* the fields of a message, whatever its class
Fields(m) == [f \in DOMAIN m \ {"kind", "data"} |-> m[f]]

\* C8 as stated: for each of the seven registered service identifiers,
\* Packet.fromBuffer of a well-formed envelope carrying it returns a packet
\* whose payload is what the matching class's fromBuffer returns for the
\* payload bytes [6, totalLength).
C8_DispatchesToCodec ==
    (WholeEnvelopeGiven /\ ServiceGiven \in Registered)
    => \E d \in {fromBuffer(heap, KindOf(ServiceGiven),
                            Buffer_slice(args.buffer, 6, TotalLength), 0)} :
          d.err = NoError
          => /\ ret.err = NoError
             /\ ret.val.kind = "Packet"
             /\ Fields(ret.val.payload) = Fields(d.val)
             /\ "data" \in DOMAIN d.val =>
                   /\ "data" \in DOMAIN ret.val.payload
                   /\ Bytes(heap, ret.val.payload.data) = Bytes(heap, d.val.data)

\* an encode that has a size was called with a buffer of the caller
EncodedInto ==
    /\ pc = "done"
    /\ op = "toBuffer"
    /\ args.buffer # Null
    /\ \/ args.this.kind \in EncodableKinds \cup {"HostInfo"}
       \/ args.this.kind = "Packet" /\ args.this.payload.kind \in EncodableKinds

\* the byte i of the block k is one the encode may write
InFrame(k, i) ==
    /\ k = args.buffer.mem
    /\ i - 1 - args.buffer.start >= args.offset
    /\ i - 1 - args.buffer.start < args.offset + EncodedSize(args.this)

HostOctets(x) ==
    <<8, x.protocol, x.address.hi \div 256, x.address.hi % 256,
      x.address.lo \div 256, x.address.lo % 256, x.port \div 256, x.port % 256>>

\* toBuffer of one of the two ConnectionRequest classes returned for a
\* control and a tunnel HostInfo with fields within their widths
ConnectionRequestEncoded ==
    /\ pc = "done"
    /\ op = "toBuffer"
    /\ args.this.kind \in {"ConnectionRequest", "Index_ConnectionRequest"}
    /\ ValidHost(args.this.control)
    /\ ValidHost(args.this.tunnel)
    /\ ret.err = NoError

\* C11 as stated: encoding a ConnectionRequest(control, tunnel) writes, from
\* the output offset on, the control HostInfo at octets 0..7, the tunnel
\* HostInfo at octets 8..15 and 4, 4, 2, 0 at octets 16..19, for every pair
\* (control, tunnel) and for both ConnectionRequest classes of the library.
C11_ConnectionRequestLayout ==
    ConnectionRequestEncoded
    => SubSeq(Bytes(heap, ret.buf), args.offset + 1, args.offset + 20)
         = HostOctets(args.this.control) \o HostOctets(args.this.tunnel)
           \o <<4, 4, 2, 0>>

\* the caller's buffer and the buffer a decode returned show what they
\* showed when the decode returned, unless the caller wrote through them
InputAsReturned == Bytes(heap, args.buffer) = Bytes(heap0, args.buffer)

ResultAsReturned == Result = Null \/ Bytes(heap, Result) = Bytes(heap0, Result)

\* TunnelRequest.fromBuffer or fromPacket returned, whatever was stored since
Decoded_C12 ==
    /\ pc \in {"done", "written"}
    /\ \/ op = "fromBuffer" /\ args.kind = "TunnelRequest"
       \/ op = "fromPacket"
    /\ ret.err = NoError

\* C12 as stated: after TunnelRequest.fromBuffer(b, offset) or fromPacket(b)
\* has returned, writes to b leave the decoded data (the returned payload)
\* unchanged, and writes to that data (payload) leave b unchanged.
C12_DecodedIsACopy ==
    Decoded_C12
    => /\ writes.result = 0 => ResultAsReturned
       /\ writes.input = 0 => InputAsReturned

\* the classes that define fromBuffer
DecodableKinds ==
    {"HostInfo", "ConnectionResponse", "Index_ConnectionResponse",
     "ConnectionStateResponse", "DisconnectRequest", "TunnelRequest",
     "TunnelResponse"}

\* the number of bytes a decode needs from the offset on
FixedSize(kind) ==
    CASE kind = "HostInfo" -> 8
      [] kind \in {"ConnectionResponse", "Index_ConnectionResponse"} -> 14
      [] kind = "ConnectionStateResponse" -> 2
      [] kind = "DisconnectRequest" -> 10
      [] kind \in {"TunnelRequest", "TunnelResponse"} -> 4

\* the fromBuffer of a class that defines it was called
DecodeCalled ==
    /\ pc = "done"
    /\ op = "fromBuffer"
    /\ args.kind \in DecodableKinds

\* C13: every decode (ConnectionResponse 14, ConnectionStateResponse 2,
\* DisconnectRequest 10, TunnelRequest 4, TunnelResponse 4, HostInfo 8)
\* given fewer bytes from the offset on than its fixed size fails with the
\* buffer-too-small error, whatever the bytes and the offset, and no decode
\* reads an index at or beyond the length of the input.
C13_ShortInputRejected ==
    DecodeCalled
    => /\ args.buffer.len - args.offset < FixedSize(args.kind)
          => ret.err = TooSmall
       /\ \A i \in ret.reads : i >= 0 /\ i < args.buffer.len

\* a tunnel response cut to its first three octets, 04 09 FF, was refused
C13_Witness ==
    /\ DecodeCalled
    /\ args.kind = "TunnelResponse"
    /\ args.offset = 2
    /\ args.buffer.len = 5
    /\ SubSeq(Bytes(heap0, args.buffer), 3, 5) = <<4, 9, 255>>
    /\ ret.err = TooSmall
    /\ ret.reads = {}

\* the number of bytes the encoding of a message of each kind occupies
ClaimedSize(m) ==
    CASE m.kind \in {"ConnectionRequest", "Index_ConnectionRequest"} -> 20
      [] m.kind \in {"ConnectionResponse", "Index_ConnectionResponse"} -> 14
      [] m.kind \in {"ConnectionStateRequest", "DisconnectRequest"} -> 10
      [] m.kind = "ConnectionStateResponse" -> 2
      [] m.kind = "TunnelRequest" -> 4 + m.data.len
      [] m.kind = "TunnelResponse" -> 4

\* m.toBuffer() returned a buffer of m.bufferSize bytes, the size of its kind
SizeIsExact ==
    /\ ret.err = NoError
    /\ bufferSize(args.this) = ClaimedSize(args.this)
    /\ ret.buf.len = bufferSize(args.this)
    /\ ret.buf.start = 0
    /\ heap[ret.buf.mem].len = bufferSize(args.this)

\* new Packet(m).toBuffer() returned a buffer of 6 + m.bufferSize bytes with
\* that number in its total-length field
TotalIsExact ==
    /\ ret.err = NoError
    /\ bufferSize(args.this.payload) = ClaimedSize(args.this.payload)
    /\ ret.buf.len = 6 + bufferSize(args.this.payload)
    /\ Get(heap, ret.buf, 4) * 256 + Get(heap, ret.buf, 5)
         = 6 + bufferSize(args.this.payload)

\* new Packet(m).toBuffer() was called for a message m of one of the kinds
\* with fields within their widths and a packet of at most 65535 bytes
PacketOf(kinds) ==
    /\ pc = "done"
    /\ op = "toBuffer"
    /\ args.this.kind = "Packet"
    /\ args.this.payload.kind \in kinds
    /\ ValidMessage(args.this.payload)
    /\ args.buffer = Null
    /\ args.offset = 0
    /\ 6 + ClaimedSize(args.this.payload) <= 65535

\* both classes of a kind that the library has two classes of
SevenKindsClasses == SevenKinds \cup {"Index_ConnectionRequest", "Index_ConnectionResponse"}

\* C14 as stated: every message kind exposes a bufferSize equal to the number
\* of bytes its own encode writes (ConnectionRequest 20, ConnectionResponse
\* 14, ConnectionStateRequest 10, ConnectionStateResponse 2, DisconnectRequest
\* 10, TunnelRequest 4 + len(data), TunnelResponse 4), and with any such
\* message as payload Packet.toBuffer() writes a total length of
\* 6 + payload.bufferSize, the length of the buffer it returns.
C14_BufferSizeOfEveryKind ==
    /\ EncodedAlone(SevenKindsClasses) => SizeIsExact
    /\ PacketOf(SevenKindsClasses) => TotalIsExact

\* C14 as amended: the same for the kinds whose class defines bufferSize and
\* toBuffer (ConnectionRequest, ConnectionStateRequest, DisconnectRequest,
\* TunnelRequest, TunnelResponse), for packets of at most 65535 bytes.
C14_BufferSizeOfEncodableKinds ==
    /\ EncodedAlone(EncodableKinds) => SizeIsExact
    /\ PacketOf(EncodableKinds) => TotalIsExact

\* the packet of TunnelRequest(1, 9, [02 FF]) has 12 bytes and says so
C14_Witness ==
    /\ PacketOf({"TunnelRequest"})
    /\ Bytes(heap, ret.buf) = <<6, 16, 4, 32, 0, 12, 4, 1, 9, 0, 2, 255>>

\* the octet i (from 0) of the structure that begins at the offset
Octet(i) == Bytes(heap0, args.buffer)[args.offset + i + 1]

\* HostInfo.fromBuffer was called
HostInfoDecoded ==
    /\ pc = "done"
    /\ op = "fromBuffer"
    /\ args.kind = "HostInfo"

\* C15: HostInfo.fromBuffer(bytes, offset) fails at the first of: fewer than
\* 8 bytes from the offset on (buffer too small), octet 0 not 8 (invalid
\* structure length), octet 1 outside {1, 2} (invalid protocol); otherwise
\* it returns protocol = octet 1, address = octets 2..5 big-endian and
\* port = octets 6..7 big-endian.
C15_HostInfoDecodeOrder ==
    HostInfoDecoded
    => IF args.buffer.len - args.offset < 8
       THEN ret.err = TooSmall
       ELSE IF Octet(0) # 8
       THEN ret.err = "Host info structure length is invalid"
       ELSE IF Octet(1) \notin {1, 2}
       THEN ret.err = "Host info protocol is out of range"
       ELSE /\ ret.err = NoError
            /\ ret.val.protocol = Octet(1)
            /\ ret.val.address = U32(Octet(2) * 256 + Octet(3),
                                     Octet(4) * 256 + Octet(5))
            /\ ret.val.port = Octet(6) * 256 + Octet(7)

\* 07 03 01 02 03 04 16 2E at offset 1, wrong in both octets, was refused for
\* its structure length
C15_Witness ==
    /\ HostInfoDecoded
    /\ args.offset = 1
    /\ args.buffer.len = 9
    /\ SubSeq(Bytes(heap0, args.buffer), 2, 9) = <<7, 3, 1, 2, 3, 4, 22, 46>>
    /\ ret.err = "Host info structure length is invalid"

\* 08 01 01 02 03 04 16 2E was decoded to UDP, 1.2.3.4, port 5678
C15_WitnessB ==
    /\ HostInfoDecoded
    /\ args.offset = 0
    /\ Bytes(heap0, args.buffer) = <<8, 1, 1, 2, 3, 4, 22, 46>>
    /\ ret.err = NoError
    /\ ret.val = HostInfo(UDP, U32(258, 772), 5678)

\* where the envelope begins in the input of an envelope decode
EnvelopeOffset == IF op = "fromPacket" THEN 0 ELSE args.offset

\* the octet i (from 0) of the envelope
EnvelopeOctet(i) == Bytes(heap0, args.buffer)[EnvelopeOffset + i + 1]

\* an envelope decode was called with at least 6 bytes available
EnvelopeGiven ==
    /\ pc = "done"
    /\ op \in {"fromPacket", "Packet.fromBuffer"}
    /\ Available >= 6

\* C16 as stated: envelope decode (fromPacket, and Packet.fromBuffer for the
\* envelope that begins at its input offset) with at least 6 bytes available
\* fails with the header-length-mismatch error when the envelope's first
\* octet is not 6, otherwise with the header-version-mismatch error when its
\* second octet is not 16, and with neither error when both octets are right.
C16_HeaderMismatch ==
    EnvelopeGiven
    => IF EnvelopeOctet(0) # 6
       THEN ret.err = "Header length mismatch"
       ELSE IF EnvelopeOctet(1) # 16
       THEN ret.err = "Header version mismatch"
       ELSE ret.err \notin {"Header length mismatch", "Header version mismatch"}

\* TunnelRequest.fromBuffer or TunnelResponse.fromBuffer was called with at
\* least 4 bytes from the offset on
TunnelDecoded ==
    /\ pc = "done"
    /\ op = "fromBuffer"
    /\ args.kind \in {"TunnelRequest", "TunnelResponse"}
    /\ args.buffer.len - args.offset >= 4

\* C17: TunnelRequest.fromBuffer and TunnelResponse.fromBuffer, given at
\* least 4 bytes from the offset on, fail with the invalid-structure-length
\* error when octet 0 is not 4 and succeed when it is; TunnelRequest yields
\* channel = octet 1, seqNumber = octet 2 and data = the bytes from octet 4
\* to the end of the input, TunnelResponse channel = octet 1,
\* seqNumber = octet 2 and status = octet 3.
C17_TunnelDecode ==
    TunnelDecoded
    => IF Octet(0) # 4
       THEN ret.err = "Invalid structure length"
       ELSE /\ ret.err = NoError
            /\ ret.val.kind = args.kind
            /\ ret.val.channel = Octet(1)
            /\ ret.val.seqNumber = Octet(2)
            /\ IF args.kind = "TunnelRequest"
               THEN Bytes(heap, ret.val.data)
                      = SubSeq(Bytes(heap0, args.buffer), args.offset + 5,
                               args.buffer.len)
               ELSE ret.val.status = Octet(3)

\* a tunnel response that begins with 5 was refused for its structure length
C17_Witness ==
    /\ TunnelDecoded
    /\ args.kind = "TunnelResponse"
    /\ args.offset = 1
    /\ Octet(0) = 5
    /\ ret.err = "Invalid structure length"

====
